---- MODULE Spec2Model ----
(***************************************************************************)
(* A model of Netflix/go-expect: the Console (PTY pair, closers, Expect,   *)
(* ExpectEOF, the deadline reader) and the ReaderMux.                      *)
(*                                                                         *)
(* Expect, ExpectEOF, WithTimeout and readerWithDeadline are modelled from *)
(* the later text of src/expect.go (lines 183-311); Console, Close and     *)
(* NewConsoleWithOpts from lines 55-101; ReaderMux and chanReader from     *)
(* src/unnamed/part_000 (lines 56-111); Send and SendLine from lines       *)
(* 142-150 of src/expect.go. The PassthroughPipe and the Console with      *)
(* matchers, observers, filters and a default timeout have no code in      *)
(* src/ and are modelled from spec.md (sections 4.1, 4.3-4.5).             *)
(* The writer of NewTestWriter is modelled from src/test_log.go (lines     *)
(* 22-57).                                                                 *)
(***************************************************************************)
EXTENDS Integers, Sequences, FiniteSets, TLC

(***************************************************************************)
(* Bounds of the model.                                                    *)
(***************************************************************************)
MaxStream == 2      \* bytes the child writes to the PTY in one behaviour
MaxCalls == 2       \* Expect / ExpectEOF calls the driver makes
MaxTime == 2        \* clock ticks
MaxClose == 2       \* Console.Close calls
NumSinks == 2       \* len(c.opts.Stdouts)
MaxUp == 2          \* bytes written to the upstream reader of a ReaderMux
NumConsumers == 2   \* readers obtained from ReaderMux.Reader
MaxPipe == 2        \* bytes written to the upstream of a PassthroughPipe
MaxReads == 3       \* reads made on a PassthroughPipe
MaxSends == 1       \* Send / SendLine calls the driver makes after its expect calls
MaxExpects == 1     \* expect calls made with matchers
MaxSendCalls == 2   \* Send / SendLine calls each sending task makes
MaxCopies == 1      \* chunks the input copier writes to the PTY master
MaxTee == 2         \* bytes the child writes while the tee of Expect is followed
MaxRune == 3        \* bytes the child writes while the runes of Expect are followed
MaxLogWrites == 3   \* writes made to the writer of NewTestWriter

(***************************************************************************)
(* Program constants.                                                      *)
(***************************************************************************)
\* bufio.NewReaderSize(reader, utf8.UTFMax): bufio raises a requested size
\* below its minimum of 16 to 16, so the rune reader's buffer holds 16 bytes.
RuneReaderSize == 16
\* io.Copy moves the stream in chunks of up to 32 KiB.
CopyChunk == 32768
\* bufio.NewReader(r): the buffer of the line reader has the default size.
LineReaderSize == 4096

Byte == {"a", "b"}
Needles == {<<"a">>, <<"a", "b">>}
\* Values of WithTimeout: 0 (no timeout) and a non-zero duration in ticks.
Timeouts == {0, 2}
Closers == {"pts", "ptm"}

Min(x, y) == IF x <= y THEN x ELSE y
Take(s, n) == SubSeq(s, 1, Min(n, Len(s)))
Drop(s, n) == SubSeq(s, Min(n, Len(s)) + 1, Len(s))

\* s found at the start of content only.
ContainsAtStart(content, s) ==
    Len(s) <= Len(content) /\ SubSeq(content, 1, Len(s)) = s

\* strings.Contains(content, s)
Contains(content, s) ==
    \E i \in 0..(Len(content) - Len(s)) : SubSeq(content, i + 1, i + Len(s)) = s

VARIABLES
    written,    \* every byte the child has written to the PTY subordinate
    ptmQ,       \* bytes waiting in the PTY, readable on the master
    fdOpen,     \* fdOpen[c]: the file of closer c is open
    closeLog,   \* one entry per closer invocation made by Console.Close
    nClose,     \* number of Console.Close calls made
    now,        \* the clock
    callNo,     \* number of Expect / ExpectEOF calls started
    call,       \* the call in progress or last finished
    pipeQ,      \* bytes in the os.Pipe of the current call's deadline reader
    copiers,    \* copiers[k]: the io.Copy goroutine started by call k
    lost,       \* bytes of the stream dropped by deadline readers so far
    upHist,     \* ReaderMux: every byte written to the upstream reader
    upQ,        \* the bytes of it Mux has not read yet
    upClosed,   \* the upstream reader has been closed with an error
    mux,        \* the Mux goroutine: where it stands and the byte it holds
    cons,       \* cons[c]: the chanReader of consumer c and its Read call
    muxLog,     \* one entry per byte a consumer Read returned, in order
    muxDropped, \* bytes a consumer Read took from the channel and returned to nobody
    pp,         \* the PassthroughPipe: upstream, hop pipe, copier, error slot, deadline
    ex,         \* the Console with matchers, observers, filters and a default timeout
    sd,         \* the PTY master as a file written by Send, SendLine and the input copier
    tee,        \* one Expect call followed write by write through its tee
    rn,         \* one Expect call followed rune by rune on a stream of UTF-8
    tl          \* the writer of NewTestWriter, its pipe, its goroutine and the test log

consoleVars == <<written, ptmQ, fdOpen, closeLog, nClose, now, callNo, call, pipeQ, copiers, lost>>
muxVars == <<upHist, upQ, upClosed, mux, cons, muxLog, muxDropped>>
vars == <<consoleVars, muxVars, pp, ex, sd, tee, rn, tl>>

\* What the operations of one component leave alone.
notConsole == <<muxVars, pp, ex, sd, tee, rn, tl>>
notMux == <<consoleVars, pp, ex, sd, tee, rn, tl>>
notPipe == <<consoleVars, muxVars, ex, sd, tee, rn, tl>>
notLoop == <<consoleVars, muxVars, pp, sd, tee, rn, tl>>
notSend == <<consoleVars, muxVars, pp, ex, tee, rn, tl>>
notTee == <<consoleVars, muxVars, pp, ex, sd, rn, tl>>
notRune == <<consoleVars, muxVars, pp, ex, sd, tee, tl>>
notLog == <<consoleVars, muxVars, pp, ex, sd, tee, rn>>

\* Bytes read from the master so far, by whomever.
Pos == Len(written) - Len(ptmQ)

\* The state of one Expect / ExpectEOF call: its options, its reader, its
\* local buffers and what it returned.
NoCall ==
    [pc |-> "idle", kind |-> "none", needle |-> <<>>, timeout |-> 0,
     viaPipe |-> FALSE, deadline |-> 0, startTime |-> 0, startPos |-> 0,
     retPos |-> 0, retTime |-> 0,
     rbuf |-> <<>>, buf |-> <<>>, sinks |-> [i \in 1..NumSinks |-> <<>>],
     err |-> "none", n |-> 0, lastReadAt |-> -1, blockedAtClose |-> FALSE]

\* A copier: where it stands, the bytes it holds between its read and its
\* write, and the error that ended its io.Copy.
NoCopier == [st |-> "none", cbuf |-> <<>>, err |-> "none"]

InitConsole ==
    /\ written = <<>>
    /\ ptmQ = <<>>
    /\ fdOpen = [c \in Closers |-> TRUE]
    /\ closeLog = <<>>
    /\ nClose = 0
    /\ now = 0
    /\ callNo = 0
    /\ call = NoCall
    /\ pipeQ = <<>>
    /\ copiers = [k \in 1..MaxCalls |-> NoCopier]
    /\ lost = 0

\* The Mux goroutine before its first read.
NoMux == [pc |-> "read", b |-> "a", idx |-> 0]

\* A chanReader whose context is live and on which no Read is in progress.
NoCons == [pc |-> "idle", plen |-> 0, cancelled |-> FALSE, raced |-> FALSE]

InitMux ==
    /\ upHist = <<>>
    /\ upQ = <<>>
    /\ upClosed = FALSE
    /\ mux = NoMux
    /\ cons = [c \in 1..NumConsumers |-> NoCons]
    /\ muxLog = <<>>
    /\ muxDropped = 0

\* A PassthroughPipe just made by new(upstream): the copier is started, the
\* error slot is empty and no read deadline is set (deadline -1).
NoPipe ==
    [hist |-> <<>>, up |-> <<>>, upErr |-> "none", cp |-> "read", cbuf |-> <<>>,
     hop |-> <<>>, hopClosed |-> FALSE, errSlot |-> "none",
     deadline |-> -1, now |-> 0,
     out |-> <<>>, nReads |-> 0, last |-> "none", lastLate |-> FALSE,
     lateWithBytes |-> FALSE]

InitPipe == pp = NoPipe

\* The arguments the expect-observer and the send-observer were last called
\* with, before any call.
NoObserved == [matchers |-> <<>>, buf |-> <<>>, err |-> "none"]

\* The Console before its construction; a timeout of -1 stands for none.
NoLoop ==
    [raw |-> <<>>, end |-> "open", masterOpen |-> TRUE, elapsed |-> 0, dflt |-> -1,
     nEmit |-> 0, nCalls |-> 0, pc |-> "new", matchers |-> <<>>, callT |-> -1, eff |-> -1,
     deadline |-> -1,
     rawRead |-> <<>>, buf |-> <<>>, sinks |-> [i \in 1..NumSinks |-> <<>>],
     idx |-> 0, err |-> "none", nObs |-> 0, obs |-> NoObserved,
     nSends |-> 0, input |-> <<>>, sendObs |-> <<>>]

\* The default timeouts a Console is constructed with: none, or one tick.
DefaultTimeouts == {-1, 1}

InitLoop == ex = NoLoop

\* The tasks that write to the PTY master: the tasks that call Send and
\* SendLine, and the input copier.
SendTasks == {1, 2}
CopierTask == 3
Writers == SendTasks \cup {CopierTask}

\* A task that is not writing.
NoWriter ==
    [pc |-> "idle", s |-> <<>>, line |-> FALSE, bytes |-> <<>>, n |-> 0,
     calls |-> 0, ent |-> 0]

\* The PTY master after pty.Open: open, nothing written, its write lock free.
NoSend ==
    [master |-> <<>>, open |-> TRUE, lock |-> 0,
     task |-> [t \in Writers |-> NoWriter], order |-> <<>>]

InitSend == sd = NoSend

\* The Console before the Expect call that is followed through its tee.
NoTee ==
    [stream |-> <<>>, nEmit |-> 0, ended |-> FALSE, pc |-> "idle", needle |-> <<>>,
     rbuf |-> <<>>, nRead |-> 0, taken |-> <<>>, wbuf |-> <<>>, k |-> 0,
     sinks |-> [i \in 1..NumSinks |-> <<>>], buf |-> <<>>, content |-> <<>>,
     err |-> "none"]

InitTee == tee = NoTee

\* The Console before the Expect call that is followed rune by rune.
NoRune ==
    [written |-> <<>>, stream |-> <<>>, ended |-> FALSE, late |-> FALSE,
     pc |-> "idle", needle |-> <<>>, timed |-> FALSE,
     rbuf |-> <<>>, rerr |-> "none", taken |-> <<>>,
     sinks |-> [i \in 1..NumSinks |-> <<>>], buf |-> <<>>, content |-> <<>>,
     err |-> "none"]

InitRune == rn = NoRune

\* The writer NewTestWriter returns: the pipe is empty and open, the
\* goroutine waits in its first ReadLine, nothing is logged.
NoLog ==
    [written |-> <<>>, nWrites |-> 0, pipe |-> <<>>, closed |-> FALSE,
     rb |-> <<>>, rerr |-> "none", pc |-> "readline", log |-> <<>>]

InitLog == tl = NoLog

Init ==
    /\ InitConsole /\ InitMux /\ InitPipe /\ InitLoop /\ InitSend /\ InitTee
    /\ InitRune /\ InitLog

(***************************************************************************)
(* The PTY and the clock.                                                  *)
(***************************************************************************)
\* The child writes one byte to the subordinate; it becomes readable on the
\* master.
ChildWrite(b) ==
    /\ fdOpen["pts"] /\ fdOpen["ptm"]
    /\ Len(written) < MaxStream
    /\ written' = Append(written, b)
    /\ ptmQ' = Append(ptmQ, b)
    /\ UNCHANGED <<fdOpen, closeLog, nClose, now, callNo, call, pipeQ, copiers, lost, notConsole>>

\* The driver closes the subordinate (c.Stdin().Close()) so that the master
\* reaches the end of the stream.
TtyClose ==
    /\ fdOpen["pts"]
    /\ fdOpen' = [fdOpen EXCEPT !["pts"] = FALSE]
    /\ UNCHANGED <<written, ptmQ, closeLog, nClose, now, callNo, call, pipeQ, copiers, lost, notConsole>>

\* Time passes. Only a call in progress reads the clock (its deadline is
\* relative to its start), so the clock is advanced while one runs.
Tick ==
    /\ now < MaxTime
    /\ call.pc = "run"
    /\ now' = now + 1
    /\ UNCHANGED <<written, ptmQ, fdOpen, closeLog, nClose, callNo, call, pipeQ, copiers, lost, notConsole>>

\* c.ptm.Read(p): "closed" once the master is closed, the bytes waiting
\* otherwise, the end of the stream once the subordinate is closed and the
\* PTY is drained, and a blocked read otherwise.
PtmRead ==
    CASE ~fdOpen["ptm"] -> "closed"
      [] fdOpen["ptm"] /\ ptmQ # <<>> -> "data"
      [] fdOpen["ptm"] /\ ptmQ = <<>> /\ ~fdOpen["pts"] -> "eof"
      [] OTHER -> "block"

\* rp.Read(p) on the os.Pipe of readerWithDeadline: a read made once the
\* deadline has passed fails with a timeout, also when bytes are waiting; wp
\* is closed by nobody but the finalizer of the exited copier.
RpReadDataFirst ==
    CASE pipeQ # <<>> -> "data"
      [] pipeQ = <<>> /\ now >= call.deadline -> "timeout"
      [] pipeQ = <<>> /\ now < call.deadline /\ copiers[callNo].st = "final" -> "eof"
      [] OTHER -> "block"

RpRead ==
    CASE now >= call.deadline -> "timeout"
      [] now < call.deadline /\ pipeQ # <<>> -> "data"
      [] now < call.deadline /\ pipeQ = <<>> /\ copiers[callNo].st = "final" -> "eof"
      [] OTHER -> "block"

\* reader.Read of the call in progress: the master itself, or the pipe.
CallRead == IF call.viaPipe THEN RpRead ELSE PtmRead

\* The bytes the call's reader would read from.
CallSource == IF call.viaPipe THEN pipeQ ELSE ptmQ

(***************************************************************************)
(* Console.Close                                                           *)
(***************************************************************************)
\* closers := append([]io.Closer{}, pts, ptm)
ClosersList == <<"pts", "ptm">>

\* ptm, pts, err := pty.Open(): the master is opened first, the subordinate
\* from it.
AcquiredList == <<"ptm", "pts">>

RECURSIVE CloseAllStopOnError(_, _, _, _)
CloseAllStopOnError(list, open, log, k) ==
    IF list = <<>> THEN [open |-> open, log |-> log]
    ELSE LET fd == Head(list)
             e == ~open[fd]
             log2 == Append(log, [call |-> k, fd |-> fd, err |-> e])
         IN IF e THEN [open |-> open, log |-> log2]
            ELSE CloseAllStopOnError(Tail(list), [open EXCEPT ![fd] = FALSE], log2, k)

RECURSIVE CloseAllOnlyOpen(_, _, _, _)
CloseAllOnlyOpen(list, open, log, k) ==
    IF list = <<>> THEN [open |-> open, log |-> log]
    ELSE LET fd == Head(list)
         IN IF ~open[fd] THEN CloseAllOnlyOpen(Tail(list), open, log, k)
            ELSE CloseAllOnlyOpen(Tail(list), [open EXCEPT ![fd] = FALSE],
                                  Append(log, [call |-> k, fd |-> fd, err |-> FALSE]), k)

\* The closers invoked from the last of the list to the first.
RECURSIVE CloseAllReversed(_, _, _, _)
CloseAllReversed(list, open, log, k) ==
    IF list = <<>> THEN [open |-> open, log |-> log]
    ELSE LET fd == list[Len(list)]
             e == ~open[fd]
         IN CloseAllReversed(SubSeq(list, 1, Len(list) - 1),
                             [open EXCEPT ![fd] = FALSE],
                             Append(log, [call |-> k, fd |-> fd, err |-> e]), k)

\* for _, fd := range c.closers { fd.Close() }: every closer is invoked in
\* list order and what it returns is dropped. Closing a file that is closed
\* already returns an error.
RECURSIVE CloseAll(_, _, _, _)
CloseAll(list, open, log, k) ==
    IF list = <<>> THEN [open |-> open, log |-> log]
    ELSE LET fd == Head(list)
             e == ~open[fd]
         IN CloseAll(Tail(list), [open EXCEPT ![fd] = FALSE],
                     Append(log, [call |-> k, fd |-> fd, err |-> e]), k)

\* No copier holds bytes on their way to the call.
NothingInFlight == \A k \in 1..MaxCalls : copiers[k].cbuf = <<>>

\* The call in progress waits in a read and nothing is on its way to it.
CallBlocked ==
    /\ call.pc = "run"
    /\ call.rbuf = <<>>
    /\ CallRead = "block"
    /\ ptmQ = <<>>
    /\ NothingInFlight

Close ==
    /\ nClose < MaxClose
    /\ LET res == CloseAll(ClosersList, fdOpen, closeLog, nClose + 1)
       IN /\ fdOpen' = res.open
          /\ closeLog' = res.log
    /\ nClose' = nClose + 1
    /\ call' = [call EXCEPT !.blockedAtClose = @ \/ CallBlocked]
    /\ UNCHANGED <<written, ptmQ, now, callNo, pipeQ, copiers, lost, notConsole>>

(***************************************************************************)
(* Expect and ExpectEOF                                                    *)
(***************************************************************************)
UsesDeadlineAlways(t) == TRUE

\* if options.Timeout == 0 { reader = c.ptm } else { readerWithDeadline }
UsesDeadline(t) == t # 0

\* The match buffer of the call before kept by the next.
KeptBuffer(c) == c.buf

\* buf := new(bytes.Buffer)
NewBuffer(c) == <<>>

\* The start of a call: the options are applied, the reader is chosen
\* (readerWithDeadline opens a pipe, sets its read deadline to now + timeout
\* and starts the copier), and the call's buffers are made.
StartCall(kind, s, t) ==
    /\ call.pc \in {"idle", "done"}
    /\ callNo < MaxCalls
    /\ callNo' = callNo + 1
    /\ call' = [NoCall EXCEPT !.pc = "run", !.kind = kind, !.needle = s,
                              !.timeout = t, !.viaPipe = UsesDeadline(t),
                              !.deadline = IF UsesDeadline(t) THEN now + t ELSE 0,
                              !.startTime = now, !.startPos = Pos,
                              !.buf = NewBuffer(call)]
    /\ pipeQ' = <<>>
    /\ copiers' = [copiers EXCEPT ![callNo + 1] =
                       IF UsesDeadline(t) THEN [NoCopier EXCEPT !.st = "read"]
                       ELSE NoCopier]
    /\ UNCHANGED <<written, ptmQ, fdOpen, closeLog, nClose, now, lost, notConsole>>

StartExpect(s, t) == StartCall("expect", s, t)

StartExpectEOF(t) == StartCall("eof", <<>>, t)

\* The call returns e in state c: the rune reader and its buffer go with the
\* call, and the deferred reader.Close() closes rp with what the pipe holds
\* (q, the pipe as the step leaves it).
Return(c, e, q) ==
    /\ call' = [c EXCEPT !.pc = "done", !.err = e, !.rbuf = <<>>,
                         !.retPos = Len(written) - Len(ptmQ'), !.retTime = now]
    /\ lost' = lost + (IF call.viaPipe THEN Len(q) ELSE 0)
    /\ pipeQ' = <<>>

\* The rune is written to every sink and to the match buffer and flushed.
WriteRune(c, x) ==
    [c EXCEPT !.sinks = [i \in 1..NumSinks |-> Append(c.sinks[i], x)],
              !.buf = Append(c.buf, x)]

\* One turn of the loop of Expect on the runes rs the rune reader holds.
ExpectRune(c0, rs, q) ==
    LET c == WriteRune(c0, Head(rs))
    IN IF Contains(c.buf, c.needle)
          THEN Return(c, "none", q)
          ELSE /\ call' = [c EXCEPT !.rbuf = Tail(rs)]
               /\ lost' = lost
               /\ pipeQ' = q

\* One turn of the loop of Expect: ReadRune, which fills the rune reader's
\* buffer with one read of the reader when it is empty, then WriteRune,
\* Flush and the search of the buffer.
ExpectIter ==
    /\ call.pc = "run" /\ call.kind = "expect"
    /\ IF call.rbuf # <<>>
          THEN /\ ptmQ' = ptmQ
               /\ ExpectRune(call, call.rbuf, pipeQ)
          ELSE CASE CallRead = "data" ->
                      LET chunk == Take(CallSource, RuneReaderSize)
                      IN /\ ptmQ' = IF call.viaPipe THEN ptmQ ELSE Drop(ptmQ, Len(chunk))
                         /\ ExpectRune([call EXCEPT !.lastReadAt = now], chunk,
                                       IF call.viaPipe THEN Drop(pipeQ, Len(chunk)) ELSE pipeQ)
                 [] CallRead \in {"timeout", "eof", "closed"} ->
                      /\ ptmQ' = ptmQ
                      /\ Return(call, CallRead, pipeQ)
                 [] OTHER -> FALSE
    /\ UNCHANGED <<written, fdOpen, closeLog, nClose, now, callNo, copiers, notConsole>>

\* One turn of io.Copy(w, r) in ExpectEOF: a read of up to one chunk, written
\* to every sink, until the reader yields an error.
ExpectEOFStep ==
    /\ call.pc = "run" /\ call.kind = "eof"
    /\ CASE CallRead = "data" ->
              LET chunk == Take(CallSource, CopyChunk)
              IN /\ ptmQ' = IF call.viaPipe THEN ptmQ ELSE Drop(ptmQ, Len(chunk))
                 /\ pipeQ' = IF call.viaPipe THEN Drop(pipeQ, Len(chunk)) ELSE pipeQ
                 /\ call' = [call EXCEPT
                               !.sinks = [i \in 1..NumSinks |-> call.sinks[i] \o chunk],
                               !.n = @ + Len(chunk), !.lastReadAt = now]
                 /\ lost' = lost
         [] CallRead \in {"timeout", "eof", "closed"} ->
              /\ ptmQ' = ptmQ
              /\ Return(call, CallRead, pipeQ)
         [] OTHER -> FALSE
    /\ UNCHANGED <<written, fdOpen, closeLog, nClose, now, callNo, copiers, notConsole>>

(***************************************************************************)
(* The copier of readerWithDeadline: go func() { io.Copy(wp, r) }()        *)
(***************************************************************************)
\* The copier of call k reads the master.
CopierRead(k) ==
    /\ copiers[k].st = "read"
    /\ CASE PtmRead = "data" ->
              /\ copiers' = [copiers EXCEPT ![k].st = "write",
                                            ![k].cbuf = Take(ptmQ, CopyChunk)]
              /\ ptmQ' = Drop(ptmQ, CopyChunk)
         [] PtmRead \in {"eof", "closed"} ->
              /\ copiers' = [copiers EXCEPT ![k].st = "exit", ![k].err = PtmRead]
              /\ ptmQ' = ptmQ
         [] OTHER -> FALSE
    /\ UNCHANGED <<written, fdOpen, closeLog, nClose, now, callNo, call, pipeQ, lost, notConsole>>

\* rp of call k is open while call k runs.
RpOpen(k) == k = callNo /\ call.pc = "run"

\* The copier of call k writes what it read to wp; once rp is closed the
\* write fails, the bytes are gone and io.Copy returns.
CopierWrite(k) ==
    /\ copiers[k].st = "write"
    /\ IF RpOpen(k)
          THEN /\ pipeQ' = pipeQ \o copiers[k].cbuf
               /\ copiers' = [copiers EXCEPT ![k].st = "read", ![k].cbuf = <<>>]
               /\ lost' = lost
          ELSE /\ copiers' = [copiers EXCEPT ![k].st = "exit", ![k].cbuf = <<>>,
                                                 ![k].err = "epipe"]
               /\ lost' = lost + Len(copiers[k].cbuf)
               /\ pipeQ' = pipeQ
    /\ UNCHANGED <<written, ptmQ, fdOpen, closeLog, nClose, now, callNo, call, notConsole>>

\* Once the copier has returned nothing refers to wp, and the runtime's
\* finalizer may close it at any later moment: a read of rp then reaches the
\* end of the pipe. It is seen only by the call whose pipe it is.
Finalize(k) ==
    /\ copiers[k].st = "exit"
    /\ RpOpen(k)
    /\ copiers' = [copiers EXCEPT ![k].st = "final"]
    /\ UNCHANGED <<written, ptmQ, fdOpen, closeLog, nClose, now, callNo, call, pipeQ, lost, notConsole>>

Next ==
    \/ \E b \in Byte : ChildWrite(b)
    \/ TtyClose
    \/ Tick
    \/ Close
    \/ \E s \in Needles, t \in Timeouts : StartExpect(s, t)
    \/ \E t \in Timeouts : StartExpectEOF(t)
    \/ ExpectIter
    \/ ExpectEOFStep
    \/ \E k \in 1..MaxCalls : CopierRead(k)
    \/ \E k \in 1..MaxCalls : CopierWrite(k)
    \/ \E k \in 1..MaxCalls : Finalize(k)

Spec == Init /\ [][Next]_vars

\* The goroutines run whenever they can take a step, and time passes.
FairSpec ==
    /\ Spec
    /\ WF_vars(ExpectIter)
    /\ WF_vars(ExpectEOFStep)
    /\ WF_vars(Tick)
    /\ \A k \in 1..MaxCalls : WF_vars(CopierRead(k)) /\ WF_vars(CopierWrite(k))

(***************************************************************************)
(* ReaderMux: one goroutine reads the upstream reader a byte at a time and *)
(* hands each byte over an unbuffered channel to whichever chanReader is   *)
(* receiving.                                                              *)
(***************************************************************************)

\* A panic in the Mux goroutine ends the whole program.
Alive == mux.pc # "panic"

\* Somebody writes one byte to the upstream reader.
UpWrite(b) ==
    /\ Alive
    /\ ~upClosed
    /\ Len(upHist) < MaxUp
    /\ upHist' = Append(upHist, b)
    /\ upQ' = Append(upQ, b)
    /\ UNCHANGED <<upClosed, mux, cons, muxLog, muxDropped, notMux>>

\* The upstream reader is closed: once drained, its Read returns an error.
UpClose ==
    /\ Alive
    /\ ~upClosed
    /\ upClosed' = TRUE
    /\ UNCHANGED <<upHist, upQ, mux, cons, muxLog, muxDropped, notMux>>

\* Mux: rm.reader.Read(p) with a one-byte p returns a byte or an error.
MuxRead ==
    /\ mux.pc = "read"
    /\ \/ /\ upQ # <<>>
          /\ mux' = [pc |-> "send", b |-> Head(upQ), idx |-> mux.idx + 1]
          /\ upQ' = Tail(upQ)
       \/ /\ upQ = <<>>
          /\ upClosed
          /\ mux' = [mux EXCEPT !.pc = "done"]
          /\ UNCHANGED upQ
    /\ UNCHANGED <<upHist, upClosed, cons, muxLog, muxDropped, notMux>>

\* Mux: rm.reader.Read(p) returns (0, nil), as an io.Pipe does for an empty
\* Write; Mux panics.
MuxReadZero ==
    /\ mux.pc = "read"
    /\ ~upClosed
    /\ upQ = <<>>
    /\ mux' = [mux EXCEPT !.pc = "panic"]
    /\ UNCHANGED <<upHist, upQ, upClosed, cons, muxLog, muxDropped, notMux>>

\* Mux after rm.bytec <- p[0] completed, with the byte sent a second time.
AfterSendAgain(m) == m

\* Mux after rm.bytec <- p[0] completed: the loop goes back to reading.
AfterSend(m) == [m EXCEPT !.pc = "read"]

\* The context of consumer c is cancelled.
Cancel(c) ==
    /\ Alive
    /\ ~cons[c].cancelled
    /\ cons' = [cons EXCEPT ![c].cancelled = TRUE]
    /\ UNCHANGED <<upHist, upQ, upClosed, mux, muxLog, muxDropped, notMux>>

\* Mux waits in rm.bytec <- p[0]: it holds a byte and no receiver is there.
SenderWaiting ==
    /\ mux.pc = "send"
    /\ \A c \in 1..NumConsumers : cons[c].pc # "select"

\* Consumer c calls Read(p) with len(p) = plen and enters the select. When
\* ctx is done already and Mux waits in its send, both cases are ready and
\* the select picks either of them.
ConsRead(c, plen) ==
    /\ Alive
    /\ cons[c].pc = "idle"
    /\ cons' = [cons EXCEPT ![c].pc = "select", ![c].plen = plen,
                            ![c].raced = cons[c].cancelled /\ SenderWaiting]
    /\ UNCHANGED <<upHist, upQ, upClosed, mux, muxLog, muxDropped, notMux>>

\* select case b := <-cr.bytec: the send in Mux and the receive in Read of
\* consumer c meet. A Read whose ctx is done takes the byte only if the send
\* was waiting when the Read entered the select.
ConsRecv(c) ==
    /\ cons[c].pc = "select"
    /\ mux.pc = "send"
    /\ ~cons[c].cancelled \/ cons[c].raced
    /\ mux' = AfterSend(mux)
    /\ cons' = [cons EXCEPT ![c].pc = "idle", ![c].raced = FALSE]
    /\ IF cons[c].plen < 1
       THEN /\ muxDropped' = muxDropped + 1
            /\ UNCHANGED muxLog
       ELSE /\ muxLog' = Append(muxLog, [cons |-> c, idx |-> mux.idx, b |-> mux.b,
                                         cancelled |-> cons[c].cancelled])
            /\ UNCHANGED muxDropped
    /\ UNCHANGED <<upHist, upQ, upClosed, notMux>>

\* select case <-cr.ctx.Done(): Read returns (0, io.EOF).
ConsDone(c) ==
    /\ Alive
    /\ cons[c].pc = "select"
    /\ cons[c].cancelled
    /\ cons' = [cons EXCEPT ![c].pc = "idle", ![c].raced = FALSE]
    /\ UNCHANGED <<upHist, upQ, upClosed, mux, muxLog, muxDropped, notMux>>

NextMux ==
    \/ \E b \in Byte : UpWrite(b)
    \/ UpClose
    \/ MuxRead
    \/ MuxReadZero
    \/ \E c \in 1..NumConsumers : Cancel(c)
    \/ \E c \in 1..NumConsumers, plen \in {0, 1} : ConsRead(c, plen)
    \/ \E c \in 1..NumConsumers : ConsRecv(c)
    \/ \E c \in 1..NumConsumers : ConsDone(c)

SpecMux == Init /\ [][NextMux]_vars

\* The goroutines are scheduled fairly: Mux goes on when its read can
\* return, and a Read that waits in its select goes on when one of its
\* cases is ready; the select picks among ready cases at random, so a
\* receive that is ready again and again is taken. Nobody is bound to call
\* Read.
FairSpecMux ==
    /\ SpecMux
    /\ WF_vars(MuxRead)
    /\ \A c \in 1..NumConsumers : SF_vars(ConsRecv(c)) /\ WF_vars(ConsDone(c))

(***************************************************************************)
(* PassthroughPipe: a reader with a settable read deadline. A copier moves *)
(* the upstream into a hop pipe whose read end honours the deadline; when  *)
(* the copy ends with error E, E is stored and the hop pipe is closed.     *)
(***************************************************************************)
\* The errors an upstream reader ends with.
PipeErrors == {"eof", "pipe error"}

\* Somebody writes one byte to the upstream reader.
PipeUpWrite(b) ==
    /\ pp.upErr = "none"
    /\ Len(pp.hist) < MaxPipe
    /\ pp' = [pp EXCEPT !.hist = Append(@, b), !.up = Append(@, b)]
    /\ UNCHANGED notPipe

\* The upstream reader is closed with error e.
PipeUpClose(e) ==
    /\ pp.upErr = "none"
    /\ pp' = [pp EXCEPT !.upErr = e]
    /\ UNCHANGED notPipe

\* The copier reads the upstream: bytes, or the error that ends the copy,
\* which is stored before the hop pipe is closed.
PipeCopierRead ==
    /\ pp.cp = "read"
    /\ \/ /\ pp.up # <<>>
          /\ pp' = [pp EXCEPT !.cbuf = pp.up, !.up = <<>>, !.cp = "write"]
       \/ /\ pp.up = <<>>
          /\ pp.upErr # "none"
          /\ pp' = [pp EXCEPT !.errSlot = pp.upErr, !.hopClosed = TRUE, !.cp = "done"]
    /\ UNCHANGED notPipe

\* The copier writes what it read into the hop pipe.
PipeCopierWrite ==
    /\ pp.cp = "write"
    /\ pp' = [pp EXCEPT !.hop = @ \o pp.cbuf, !.cbuf = <<>>, !.cp = "read"]
    /\ UNCHANGED notPipe

\* set_read_deadline(now + d): the present moment (d = 0) or a later one.
PipeSetReadDeadline(d) ==
    /\ pp' = [pp EXCEPT !.deadline = pp.now + d]
    /\ UNCHANGED notPipe

PipeTick ==
    /\ pp.now < MaxTime
    /\ pp' = [pp EXCEPT !.now = @ + 1]
    /\ UNCHANGED notPipe

\* The read deadline is set and has passed.
PipeLate == pp.deadline >= 0 /\ pp.now >= pp.deadline

\* A read that lets waiting bytes win over a deadline that has passed.
PipeReadResultDataFirst ==
    CASE pp.hop # <<>> -> "data"
      [] pp.hop = <<>> /\ PipeLate -> "timeout"
      [] pp.hop = <<>> /\ ~PipeLate /\ pp.hopClosed -> pp.errSlot
      [] OTHER -> "block"

\* What read(buf) returns: a timeout once the deadline has passed, bytes of
\* the hop pipe otherwise, the stored error once the hop pipe is closed and
\* drained; it waits otherwise.
PipeReadResult ==
    CASE PipeLate -> "timeout"
      [] ~PipeLate /\ pp.hop # <<>> -> "data"
      [] ~PipeLate /\ pp.hop = <<>> /\ pp.hopClosed -> pp.errSlot
      [] OTHER -> "block"

\* read(buf) with a one-byte buf returns.
PipeRead ==
    /\ pp.nReads < MaxReads
    /\ PipeReadResult # "block"
    /\ pp' = [pp EXCEPT
                !.nReads = @ + 1,
                !.last = PipeReadResult,
                !.lastLate = PipeLate,
                !.lateWithBytes = @ \/ (PipeLate /\ pp.hop \o pp.cbuf \o pp.up # <<>>),
                !.out = IF PipeReadResult = "data" THEN Append(@, Head(pp.hop)) ELSE @,
                !.hop = IF PipeReadResult = "data" THEN Tail(@) ELSE @]
    /\ UNCHANGED notPipe

NextPipe ==
    \/ \E b \in Byte : PipeUpWrite(b)
    \/ \E e \in PipeErrors : PipeUpClose(e)
    \/ PipeCopierRead
    \/ PipeCopierWrite
    \/ \E d \in {0, 1} : PipeSetReadDeadline(d)
    \/ PipeTick
    \/ PipeRead

SpecPipe == Init /\ [][NextPipe]_vars

(***************************************************************************)
(* The Console with matchers, observers, filters and a default timeout:    *)
(* construct, the expect loop and send.                                    *)
(***************************************************************************)
\* What the child can write: a plain byte and a byte the filters of
\* TestExpectFiltered mask.
LoopByte == {"a", "x"}

\* Matchers: StringMatch(s), EOF and PTYClosed.
StringMatch(s) == [kind |-> "string", s |-> s]
EOFMatch == [kind |-> "eof", s |-> <<>>]
PTYClosedMatch == [kind |-> "ptsclosed", s |-> <<>>]

\* The matcher lists the calls are made with.
MatcherLists ==
    { <<StringMatch(<<"*", "a">>), StringMatch(<<"a">>)>>,
      <<StringMatch(<<"a">>), StringMatch(<<"*">>)>>,
      <<StringMatch(<<"x">>), EOFMatch>>,
      <<EOFMatch, PTYClosedMatch>> }

\* Per-call timeouts: none given (-1), or two ticks.
CallTimeouts == {-1, 2}

\* The errors a read of the stream ends with.
LoopEnds == {"eof", "ptsclosed", "ioerr"}

\* construct(opts...): stores the default timeout.
LoopConstruct(d) ==
    /\ ex.pc = "new"
    /\ ex' = [ex EXCEPT !.pc = "idle", !.dflt = d]
    /\ UNCHANGED notLoop

\* The child writes one byte.
LoopEmit(b) ==
    /\ ex.pc # "new"
    /\ ex.end = "open"
    /\ ex.nEmit < MaxStream
    /\ ex' = [ex EXCEPT !.raw = Append(@, b), !.nEmit = @ + 1]
    /\ UNCHANGED notLoop

\* The stream ends: the next read of the drained stream yields e.
LoopEnd(e) ==
    /\ ex.pc # "new"
    /\ ex.end = "open"
    /\ ex' = [ex EXCEPT !.end = e]
    /\ UNCHANGED notLoop

\* Time passes while a call runs and its deadline, if any, is ahead; it is
\* counted from the start of the call.
LoopTick ==
    /\ ex.pc = "run"
    /\ ex.elapsed < MaxTime
    /\ ex.deadline = -1 \/ ex.elapsed < ex.deadline
    /\ ex' = [ex EXCEPT !.elapsed = @ + 1]
    /\ UNCHANGED notLoop

\* maskFilter.Read: every byte equal to mask is replaced by '*'.
MaskFilter(mask, x) == IF x = mask THEN "*" ELSE x

\* WithExpectFilter(newMaskFilter('x'), newMaskFilter('1'))
ExpectFilters == <<"x", "1">>

\* The read stream with no filter applied.
ApplyFiltersNone(fs, x) == x

\* The read stream wrapped by each registered filter, in registration order.
RECURSIVE ApplyFilters(_, _)
ApplyFilters(fs, x) ==
    IF fs = <<>> THEN x ELSE ApplyFilters(Tail(fs), MaskFilter(Head(fs), x))

\* The Console default taking precedence over the per-call timeout.
EffectiveTimeoutDefaultFirst(t, d) == IF d # -1 THEN d ELSE t

\* Effective timeout: per-call override > Console default > none.
EffectiveTimeout(t, d) == IF t # -1 THEN t ELSE d

\* A non-terminal matcher hits when the buffer contains its string.
Hits(m, buf) == m.kind = "string" /\ Contains(buf, m.s)

\* The last matcher of the list that hits.
RECURSIVE LastHitFrom(_, _, _)
LastHitFrom(ms, buf, i) ==
    IF i < 1 THEN 0
    ELSE IF Hits(ms[i], buf) THEN i ELSE LastHitFrom(ms, buf, i - 1)

FirstHitLast(ms, buf) == LastHitFrom(ms, buf, Len(ms))

\* The matchers are evaluated in the order provided, from the i-th on; the
\* first that hits stops the evaluation (0: none hits).
RECURSIVE FirstHitFrom(_, _, _)
FirstHitFrom(ms, buf, i) ==
    IF i > Len(ms) THEN 0
    ELSE IF Hits(ms[i], buf) THEN i ELSE FirstHitFrom(ms, buf, i + 1)

FirstHit(ms, buf) == FirstHitFrom(ms, buf, 1)

\* The first matcher of the given terminal kind (EOF, PTYClosed), 0 if none.
RECURSIVE TerminalHitFrom(_, _, _)
TerminalHitFrom(ms, kind, i) ==
    IF i > Len(ms) THEN 0
    ELSE IF ms[i].kind = kind THEN i ELSE TerminalHitFrom(ms, kind, i + 1)

TerminalHit(ms, kind) == TerminalHitFrom(ms, kind, 1)

\* The expect-observer invoked on failures only.
ObserveOnError(x) ==
    IF x.err = "none" THEN x
    ELSE [x EXCEPT !.nObs = @ + 1,
                   !.obs = [matchers |-> x.matchers, buf |-> x.buf, err |-> x.err]]

\* The expect-observer is invoked with the matchers attempted, the final
\* buffer and the error.
Observe(x) ==
    [x EXCEPT !.nObs = @ + 1,
              !.obs = [matchers |-> x.matchers, buf |-> x.buf, err |-> x.err]]

\* The call returns (buffer, i, e): on any return path the expect-observer is
\* invoked.
LoopReturn(x, e, i) == Observe([x EXCEPT !.pc = "done", !.err = e, !.idx = i])

\* expect(matchers..., opts...): the effective timeout and its one absolute
\* deadline are fixed and the match buffer is freshly allocated.
LoopStart(ms, t) ==
    /\ ex.pc \in {"idle", "done"}
    /\ ex.nCalls < MaxExpects
    /\ LET eff == EffectiveTimeout(t, ex.dflt)
       IN ex' = [ex EXCEPT !.pc = "run", !.nCalls = @ + 1, !.matchers = ms,
                           !.callT = t, !.eff = eff, !.elapsed = 0,
                           !.deadline = IF eff = -1 THEN -1 ELSE eff,
                           !.rawRead = <<>>, !.buf = <<>>,
                           !.sinks = [i \in 1..NumSinks |-> <<>>],
                           !.idx = 0, !.err = "none", !.nObs = 0,
                           !.obs = NoObserved]
    /\ UNCHANGED notLoop

\* The call's read deadline has passed.
LoopLate == ex.deadline # -1 /\ ex.elapsed >= ex.deadline

\* The rune r goes to the tee (sinks..., match buffer) and is flushed, then
\* the matchers are evaluated. A sink whose write fails (fail, 0: none) ends
\* the write there: the sinks before it have the rune, the match buffer has
\* not.
LoopRune(x, r, fail) ==
    IF fail # 0
       THEN LoopReturn([x EXCEPT !.sinks = [i \in 1..NumSinks |->
                                    IF i < fail THEN Append(x.sinks[i], r)
                                                ELSE x.sinks[i]]],
                       "sinkerr", 0)
       ELSE LET y == [x EXCEPT !.sinks = [i \in 1..NumSinks |-> Append(x.sinks[i], r)],
                               !.buf = Append(@, r)]
                i == FirstHit(y.matchers, y.buf)
            IN IF i # 0 THEN LoopReturn(y, "none", i) ELSE y

\* The read of the stream ended with error e: a terminal matcher for it
\* matches, otherwise the error is surfaced.
LoopError(x, e) ==
    LET i == TerminalHit(x.matchers, e)
    IN IF i # 0 THEN LoopReturn(x, "none", i) ELSE LoopReturn(x, e, 0)

\* One turn of the expect loop: read one rune from the filtered stream,
\* write it to the tee, evaluate the matchers.
LoopStep(fail) ==
    /\ ex.pc = "run"
    /\ CASE LoopLate ->
              /\ fail = 0
              /\ ex' = LoopReturn(ex, "timeout", 0)
         [] ~LoopLate /\ ex.raw # <<>> ->
              ex' = LoopRune([ex EXCEPT !.raw = Tail(@),
                                        !.rawRead = Append(@, Head(ex.raw))],
                             ApplyFilters(ExpectFilters, Head(ex.raw)), fail)
         [] ~LoopLate /\ ex.raw = <<>> /\ ex.end # "open" ->
              /\ fail = 0
              /\ ex' = LoopError(ex, ex.end)
         [] OTHER -> FALSE
    /\ UNCHANGED notLoop

\* The messages the driver sends.
Messages == {<<"2">>}

\* The send-observer is invoked with the message, the number of bytes
\* written and the error.
SendObserve(log, msg, n, e) == Append(log, [msg |-> msg, n |-> n, err |-> e])

\* send(s) / send_line(s): s, with a newline appended for send_line, is
\* written to the PTY master; the send-observer is invoked. The driver sends
\* its answer after an expect call has returned.
LoopSend(msg, line) ==
    /\ ex.pc = "done"
    /\ ex.nSends < MaxSends
    /\ LET bytes == IF line THEN Append(msg, "\n") ELSE msg
           n == IF ex.masterOpen THEN Len(bytes) ELSE 0
           e == IF ex.masterOpen THEN "none" ELSE "closed"
       IN ex' = [ex EXCEPT !.nSends = @ + 1,
                           !.input = @ \o SubSeq(bytes, 1, n),
                           !.sendObs = SendObserve(@, bytes, n, e)]
    /\ UNCHANGED notLoop

\* close(): the PTY endpoints are closed; reads of the stream and writes to
\* the master fail from then on.
LoopClose ==
    /\ ex.pc # "new"
    /\ ex.masterOpen
    /\ ex' = [ex EXCEPT !.masterOpen = FALSE,
                        !.end = IF @ = "open" THEN "ioerr" ELSE @]
    /\ UNCHANGED notLoop

NextLoop ==
    \/ \E d \in DefaultTimeouts : LoopConstruct(d)
    \/ \E b \in LoopByte : LoopEmit(b)
    \/ \E e \in LoopEnds : LoopEnd(e)
    \/ LoopTick
    \/ \E ms \in MatcherLists, t \in CallTimeouts : LoopStart(ms, t)
    \/ \E fail \in 0..NumSinks : LoopStep(fail)
    \/ \E msg \in Messages, line \in BOOLEAN : LoopSend(msg, line)
    \/ LoopClose

SpecLoop == Init /\ [][NextLoop]_vars

(***************************************************************************)
(* Send and SendLine (src/expect.go, lines 142-150): one WriteString on    *)
(* the PTY master per call. A write on an os.File holds the write lock of  *)
(* the file from its first write(2) to its last; a write(2) may take only  *)
(* a part of the bytes. The input copier (spec.md, 4.4) writes the chunks  *)
(* it copies to the same file.                                             *)
(***************************************************************************)
\* The strings the tasks send.
SendStrings == {<<"2">>}

\* The chunks the input copier reads from its source.
CopierChunks == {<<"c", "d">>}

\* The number of bytes one write(2) takes.
WriteSizes == {1, 2}

\* The task t enters ptm.WriteString(bytes).
SendBytes(t, s, line, bytes) ==
    /\ sd.task[t].pc = "idle"
    /\ sd' = [sd EXCEPT !.task[t] = [pc |-> "lock", s |-> s, line |-> line,
                                     bytes |-> bytes, n |-> 0,
                                     calls |-> sd.task[t].calls + 1, ent |-> 0]]
    /\ UNCHANGED notSend

\* Send(s): c.ptm.WriteString(s)
Send(t, s) ==
    /\ sd.task[t].calls < MaxSendCalls
    /\ SendBytes(t, s, FALSE, s)

\* SendLine(s): c.Send(fmt.Sprintf("%s\n", s))
SendLine(t, s) ==
    /\ sd.task[t].calls < MaxSendCalls
    /\ SendBytes(t, s, TRUE, s \o <<"\n">>)

\* The input copier has read a chunk from its source and writes it to the
\* PTY master.
CopierCopy(bs) ==
    /\ sd.task[CopierTask].calls < MaxCopies
    /\ SendBytes(CopierTask, bs, FALSE, bs)

\* WriteString has returned: the task keeps the number of calls it made.
Returned(w) == [NoWriter EXCEPT !.calls = w.calls]

\* The write lock of the file taken whether it is held or not.
WriteLockIgnored == TRUE

\* The write lock of the file is free.
WriteLockFree == sd.lock = 0

\* File.Write takes the write lock of the file; on a closed file it returns
\* an error with nothing written.
FdWriteLock(t) ==
    /\ sd.task[t].pc = "lock"
    /\ WriteLockFree
    /\ LET e == [task |-> t, call |-> sd.task[t].calls, s |-> sd.task[t].s,
                 line |-> sd.task[t].line, n |-> 0, done |-> FALSE,
                 err |-> FALSE]
           k == Len(sd.order) + 1
       IN IF sd.open
             THEN sd' = [sd EXCEPT !.lock = t, !.order = Append(@, e),
                                   !.task[t].pc = "write", !.task[t].ent = k]
             ELSE sd' = [sd EXCEPT !.task[t] = Returned(sd.task[t])]
    /\ UNCHANGED notSend

\* One write(2) of File.Write: it takes the next k bytes; after the last
\* byte File.Write releases the lock and returns.
FdWrite(t, k) ==
    /\ sd.task[t].pc = "write"
    /\ sd.open
    /\ sd.task[t].n + k <= Len(sd.task[t].bytes)
    /\ LET w == sd.task[t]
           last == w.n + k = Len(w.bytes)
       IN sd' = [sd EXCEPT !.master = @ \o SubSeq(w.bytes, w.n + 1, w.n + k),
                           !.task[t] = IF last THEN Returned(w)
                                               ELSE [w EXCEPT !.n = @ + k],
                           !.lock = IF last THEN 0 ELSE @,
                           !.order[w.ent].n = @ + k,
                           !.order[w.ent].done = last]
    /\ UNCHANGED notSend

\* The file was closed during the write: File.Write returns the number of
\* bytes written so far and the error.
FdWriteFail(t) ==
    /\ sd.task[t].pc = "write"
    /\ ~sd.open
    /\ sd' = [sd EXCEPT !.task[t] = Returned(sd.task[t]), !.lock = 0,
                        !.order[sd.task[t].ent].done = TRUE,
                        !.order[sd.task[t].ent].err = TRUE]
    /\ UNCHANGED notSend

\* Console.Close closes the PTY master.
SendClose ==
    /\ sd.open
    /\ sd' = [sd EXCEPT !.open = FALSE]
    /\ UNCHANGED notSend

NextSend ==
    \/ \E t \in SendTasks, s \in SendStrings : Send(t, s)
    \/ \E t \in SendTasks, s \in SendStrings : SendLine(t, s)
    \/ \E bs \in CopierChunks : CopierCopy(bs)
    \/ \E t \in Writers : FdWriteLock(t)
    \/ \E t \in Writers, k \in WriteSizes : FdWrite(t, k)
    \/ \E t \in Writers : FdWriteFail(t)
    \/ SendClose

SpecSend == Init /\ [][NextSend]_vars

(***************************************************************************)
(* The tee of Expect (src/expect.go, lines 230-259), one read and one      *)
(* write at a time: ReadRune on the rune reader, WriteRune into the rune   *)
(* writer, Flush to the MultiWriter of the sinks and the match buffer,     *)
(* which writes to each in list order, the match buffer last.              *)
(***************************************************************************)
\* The strings Expect is called with: the needles and the empty string.
TeeNeedles == Needles \cup {<<"b">>, <<>>}

\* The child writes one byte to the PTY.
TeeEmit(b) ==
    /\ ~tee.ended
    /\ tee.nEmit < MaxTee
    /\ tee' = [tee EXCEPT !.stream = Append(@, b), !.nEmit = @ + 1]
    /\ UNCHANGED notTee

\* The PTY is closed: a read of the drained stream fails from then on.
TeeEnd ==
    /\ ~tee.ended
    /\ tee' = [tee EXCEPT !.ended = TRUE]
    /\ UNCHANGED notTee

\* Expect(s) with no timeout: reader = c.ptm, buf, runeReader, writer and
\* runeWriter are made.
TeeStart(s) ==
    /\ tee.pc = "idle"
    /\ tee' = [tee EXCEPT !.pc = "read", !.needle = s]
    /\ UNCHANGED notTee

\* content = buf.String(); r, _, err := runeReader.ReadRune(): when its
\* buffer is empty the rune reader fills it with one Read of the stream, of
\* up to the size of the buffer; an error of that Read returns content and
\* the error. runeWriter.WriteRune(r) puts the rune in the writer's buffer.
TeeReadRune ==
    /\ tee.pc = "read"
    /\ IF tee.rbuf # <<>>
          THEN tee' = [tee EXCEPT !.content = tee.buf, !.rbuf = Tail(@),
                                  !.wbuf = <<Head(tee.rbuf)>>, !.pc = "flush", !.k = 1]
          ELSE IF tee.stream # <<>>
                  THEN LET chunk == Take(tee.stream, RuneReaderSize)
                       IN tee' = [tee EXCEPT !.content = tee.buf,
                                             !.stream = Drop(@, Len(chunk)),
                                             !.nRead = @ + Len(chunk),
                                             !.taken = @ \o chunk,
                                             !.rbuf = Tail(chunk),
                                             !.wbuf = <<Head(chunk)>>,
                                             !.pc = "flush", !.k = 1]
                  ELSE /\ tee.ended
                       /\ tee' = [tee EXCEPT !.content = tee.buf, !.pc = "done",
                                             !.err = "eof"]
    /\ UNCHANGED notTee

\* A failed write to a sink noted and the Flush carried on with the next.
TeeFlushSinkGoOn(fail) ==
    /\ tee.pc = "flush"
    /\ tee.k <= NumSinks
    /\ IF fail
          THEN tee' = [tee EXCEPT !.err = "sinkerr", !.k = @ + 1]
          ELSE tee' = [tee EXCEPT !.sinks[tee.k] = @ \o tee.wbuf, !.k = @ + 1]
    /\ UNCHANGED notTee

\* runeWriter.Flush(), the MultiWriter's write to the k-th sink: a write
\* that fails ends the Flush, and Expect returns content and the error.
TeeFlushSink(fail) ==
    /\ tee.pc = "flush"
    /\ tee.k <= NumSinks
    /\ IF fail
          THEN tee' = [tee EXCEPT !.pc = "done", !.err = "sinkerr"]
          ELSE tee' = [tee EXCEPT !.sinks[tee.k] = @ \o tee.wbuf, !.k = @ + 1]
    /\ UNCHANGED notTee

\* runeWriter.Flush(), the MultiWriter's last write: the match buffer.
TeeFlushBuf ==
    /\ tee.pc = "flush"
    /\ tee.k = NumSinks + 1
    /\ tee' = [tee EXCEPT !.buf = @ \o tee.wbuf, !.wbuf = <<>>, !.k = 0,
                          !.pc = "match"]
    /\ UNCHANGED notTee

\* content = buf.String(); if strings.Contains(content, s) { break }
TeeMatch ==
    /\ tee.pc = "match"
    /\ tee' = [tee EXCEPT !.content = tee.buf,
                          !.pc = IF Contains(tee.buf, tee.needle) THEN "done"
                                                                  ELSE "read"]
    /\ UNCHANGED notTee

NextTee ==
    \/ \E b \in Byte : TeeEmit(b)
    \/ TeeEnd
    \/ \E s \in TeeNeedles : TeeStart(s)
    \/ TeeReadRune
    \/ \E fail \in BOOLEAN : TeeFlushSink(fail)
    \/ TeeFlushBuf
    \/ TeeMatch

SpecTee == Init /\ [][NextTee]_vars

(***************************************************************************)
(* The runes of Expect (src/expect.go, lines 231-252): ReadRune of the     *)
(* bufio reader decodes one rune of UTF-8 from its buffer, filling the     *)
(* buffer while it holds only a part of a rune and no read has failed;     *)
(* WriteRune encodes the rune and Flush writes its bytes. The bytes are    *)
(* "a" (ASCII), "L" and "C" (the lead byte and the continuation byte of a  *)
(* two-byte rune); the replacement rune U+FFFD is encoded EF BF BD.        *)
(***************************************************************************)
RuneByte == {"a", "L", "C"}

\* The strings Expect is called with.
RuneNeedles == {<<"a">>, <<"L", "C">>}

\* utf8.RuneError, encoded
Replacement == <<"EF", "BF", "BD">>

\* utf8.FullRune(p): p begins with a full encoding of a rune; an invalid
\* encoding counts as full, it converts to an error rune of width 1.
FullRune(p) == p # <<>> /\ (p[1] = "L" => Len(p) >= 2)

\* utf8.DecodeRune(p), for p not empty: the bytes of the rune as WriteRune
\* encodes it, and the number of bytes of p it takes.
DecodeRune(p) ==
    IF p[1] = "a" THEN [enc |-> <<"a">>, size |-> 1]
    ELSE IF p[1] = "L" /\ Len(p) >= 2 /\ p[2] = "C" THEN [enc |-> <<"L", "C">>, size |-> 2]
    ELSE [enc |-> Replacement, size |-> 1]

\* The child writes one byte to the PTY.
RuneEmit(b) ==
    /\ ~rn.ended
    /\ Len(rn.written) < MaxRune
    /\ rn' = [rn EXCEPT !.written = Append(@, b), !.stream = Append(@, b)]
    /\ UNCHANGED notRune

\* The PTY is closed: a read of the drained stream fails from then on.
RuneEnd ==
    /\ ~rn.ended
    /\ rn' = [rn EXCEPT !.ended = TRUE]
    /\ UNCHANGED notRune

\* Expect(s) or Expect(s, WithTimeout(t)): the reader is c.ptm or the
\* reader with a deadline; buf, runeReader and runeWriter are made.
RuneStart(s, timed) ==
    /\ rn.pc = "idle"
    /\ rn' = [rn EXCEPT !.pc = "read", !.needle = s, !.timed = timed]
    /\ UNCHANGED notRune

\* The read deadline of the call passes.
RuneLate ==
    /\ rn.pc = "read" /\ rn.timed /\ ~rn.late
    /\ rn' = [rn EXCEPT !.late = TRUE]
    /\ UNCHANGED notRune

\* ReadRune goes on filling: less than utf8.UTFMax bytes are buffered, they
\* are not a full rune, no read has failed and the buffer is not full.
RuneMustFill ==
    /\ Len(rn.rbuf) < 4
    /\ ~FullRune(rn.rbuf)
    /\ rn.rerr = "none"
    /\ Len(rn.rbuf) < RuneReaderSize

\* b.fill(): one Read of the reader into the free part of the buffer; its
\* error, a passed deadline or the end of the stream, is kept in the reader.
RuneFill ==
    /\ rn.pc = "read"
    /\ RuneMustFill
    /\ IF rn.late
          THEN rn' = [rn EXCEPT !.rerr = "timeout"]
          ELSE IF rn.stream # <<>>
                  THEN LET chunk == Take(rn.stream, RuneReaderSize - Len(rn.rbuf))
                       IN rn' = [rn EXCEPT !.stream = Drop(@, Len(chunk)),
                                           !.taken = @ \o chunk,
                                           !.rbuf = @ \o chunk]
                  ELSE /\ rn.ended
                       /\ rn' = [rn EXCEPT !.rerr = "eof"]
    /\ UNCHANGED notRune

\* The rest of one turn of the loop. ReadRune returns the error of the
\* reader when its buffer is empty, and Expect returns content and the
\* error; otherwise it decodes one rune from the buffer, WriteRune and Flush
\* write the bytes of the rune to every sink and to the match buffer, and
\* the buffer is searched.
RuneTurn ==
    /\ rn.pc = "read"
    /\ ~RuneMustFill
    /\ IF rn.rbuf = <<>>
          THEN rn' = [rn EXCEPT !.content = rn.buf, !.pc = "done", !.err = rn.rerr]
          ELSE LET d == DecodeRune(rn.rbuf)
                   b == rn.buf \o d.enc
               IN rn' = [rn EXCEPT !.rbuf = Drop(@, d.size),
                                   !.sinks = [i \in 1..NumSinks |-> rn.sinks[i] \o d.enc],
                                   !.buf = b, !.content = b,
                                   !.pc = IF Contains(b, rn.needle) THEN "done" ELSE "read"]
    /\ UNCHANGED notRune

NextRune ==
    \/ \E b \in RuneByte : RuneEmit(b)
    \/ RuneEnd
    \/ \E s \in RuneNeedles, timed \in BOOLEAN : RuneStart(s, timed)
    \/ RuneLate
    \/ RuneFill
    \/ RuneTurn

SpecRune == Init /\ [][NextRune]_vars

(***************************************************************************)
(* NewTestWriter (src/test_log.go, lines 22-57): the writer is the write   *)
(* end of an io.Pipe; a goroutine reads the pipe through a bufio.Reader    *)
(* with ReadLine and hands every line to t.Log. The data is counted in     *)
(* units: "x" is one ordinary byte, "B" a block of LineReaderSize ordinary *)
(* bytes, "\r" and "\n" the carriage return and the newline.               *)
(***************************************************************************)
\* The number of bytes of a unit, and of a sequence of units.
UnitSize(u) == IF u = "B" THEN LineReaderSize ELSE 1

RECURSIVE Size(_)
Size(us) == IF us = <<>> THEN 0 ELSE UnitSize(Head(us)) + Size(Tail(us))

\* The index of the first newline of us, 0 if it has none.
RECURSIVE NewlineFrom(_, _)
NewlineFrom(us, i) ==
    IF i > Len(us) THEN 0
    ELSE IF us[i] = "\n" THEN i ELSE NewlineFrom(us, i + 1)

FirstNewline(us) == NewlineFrom(us, 1)

\* The last unit of us is u.
EndsWith(us, u) == us # <<>> /\ us[Len(us)] = u

\* us without its last unit.
Front(us) == SubSeq(us, 1, Len(us) - 1)

\* The longest prefix of us that has at most n bytes.
RECURSIVE TakeFit(_, _)
TakeFit(us, n) ==
    IF us = <<>> \/ UnitSize(Head(us)) > n THEN <<>>
    ELSE <<Head(us)>> \o TakeFit(Tail(us), n - UnitSize(Head(us)))

\* The data of one Write.
LogChunks == {<<"x">>, <<"\n">>, <<"\r", "\n">>, <<"x", "\n", "x">>, <<"B">>}

\* Everything written so far ends a line.
AtLineStart == tl.written = <<>> \/ EndsWith(tl.written, "\n")

\* w.Write(p) on the io.Pipe: the data is handed to the reads of the pipe;
\* the Write returns when all of it has been read, and the next Write starts
\* after that. A block is written at the start of a line.
LogWrite(p) ==
    /\ ~tl.closed
    /\ tl.pipe = <<>>
    /\ tl.nWrites < MaxLogWrites
    /\ p = <<"B">> => AtLineStart
    /\ tl' = [tl EXCEPT !.written = @ \o p, !.pipe = p, !.nWrites = @ + 1]
    /\ UNCHANGED notLog

\* The write end of the pipe is closed: reads of the drained pipe return
\* io.EOF.
LogClose ==
    /\ ~tl.closed
    /\ tl.pipe = <<>>
    /\ tl' = [tl EXCEPT !.closed = TRUE]
    /\ UNCHANGED notLog

\* br.ReadLine() goes on reading: its buffer holds no newline, is not full
\* and no read has failed.
LogMustFill ==
    /\ FirstNewline(tl.rb) = 0
    /\ Size(tl.rb) < LineReaderSize
    /\ tl.rerr = "none"

\* b.fill(): one Read of the pipe into the free part of the buffer. A Read
\* of an io.Pipe returns data of one Write.
LogFill ==
    /\ tl.pc = "readline"
    /\ LogMustFill
    /\ IF tl.pipe # <<>>
          THEN LET got == TakeFit(tl.pipe, LineReaderSize - Size(tl.rb))
               IN /\ got # <<>>
                  /\ tl' = [tl EXCEPT !.pipe = SubSeq(@, Len(got) + 1, Len(@)),
                                      !.rb = @ \o got]
          ELSE /\ tl.closed
               /\ tl' = [tl EXCEPT !.rerr = "eof"]
    /\ UNCHANGED notLog

\* br.ReadLine() on a buffer that needs no more filling: the line up to the
\* first newline, without its "\n" or "\r\n"; or the whole of a full buffer
\* with no newline (isPrefix is set, a final "\r" stays behind); or, after a
\* failed read, what is left in the buffer; or the error when nothing is.
ReadLine(us) ==
    LET i == FirstNewline(us)
    IN IF i # 0
          THEN LET l == SubSeq(us, 1, i - 1)
               IN [line |-> IF EndsWith(l, "\r") THEN Front(l) ELSE l,
                   rest |-> SubSeq(us, i + 1, Len(us)), ok |-> TRUE, err |-> FALSE]
       ELSE IF Size(us) >= LineReaderSize
          THEN IF EndsWith(us, "\r")
                  THEN [line |-> Front(us), rest |-> <<"\r">>, ok |-> TRUE, err |-> FALSE]
                  ELSE [line |-> us, rest |-> <<>>, ok |-> TRUE, err |-> FALSE]
       ELSE IF us # <<>>
          THEN [line |-> us, rest |-> <<>>, ok |-> TRUE, err |-> FALSE]
       ELSE [line |-> <<>>, rest |-> <<>>, ok |-> FALSE, err |-> TRUE]

\* line, _, err := br.ReadLine(); if err != nil { return }; tw.Write(line):
\* the line is logged with t.Log; on the error the goroutine returns and the
\* read end of the pipe is closed. ReadLine hands out the error of the failed
\* read once, or clears it with the data it returns.
LogLine ==
    /\ tl.pc = "readline"
    /\ ~LogMustFill
    /\ LET res == ReadLine(tl.rb)
       IN IF res.err
             THEN tl' = [tl EXCEPT !.pc = "done", !.rerr = "none"]
             ELSE tl' = [tl EXCEPT !.rb = res.rest,
                                   !.rerr = IF FirstNewline(tl.rb) = 0 THEN "none" ELSE @,
                                   !.log = Append(@, res.line)]
    /\ UNCHANGED notLog

NextLog ==
    \/ \E p \in LogChunks : LogWrite(p)
    \/ LogClose
    \/ LogFill
    \/ LogLine

SpecLog == Init /\ [][NextLog]_vars

(***************************************************************************)
(* The claims about the Console.                                           *)
(***************************************************************************)
\* The stream from where the call started to where it stood at its return.
ConsumedByCall == SubSeq(written, call.startPos + 1, call.retPos)

\* C1: no over-read. When Expect returns a match, the bytes read from the
\* PTY master during the call are exactly the buffer it returns, so the
\* next read of the stream yields the byte that follows the match.
C1_NoOverRead ==
    (call.pc = "done" /\ call.kind = "expect" /\ call.err = "none")
        => /\ call.retPos - call.startPos = Len(call.buf)
           /\ call.buf = ConsumedByCall

\* C2: sink equality. When a call has returned (by match, error or timeout)
\* every sink has received exactly the bytes the call consumed from the
\* stream, in order.
C2_SinkEquality ==
    call.pc = "done" => \A i \in 1..NumSinks : call.sinks[i] = ConsumedByCall

C4_ZeroTimeoutFails ==
    (call.pc = "run" /\ call.kind = "expect" /\ call.timeout = 0)
        ~> \/ call.pc = "done" /\ call.err = "timeout"
           \/ Contains(SubSeq(written, call.startPos + 1, Len(written)), call.needle)
           \/ ~fdOpen["pts"]
           \/ ~fdOpen["ptm"]

\* C5: the timeout is one absolute deadline, start + timeout, fixed when
\* the call starts: the call obtains no byte of the stream at or after it,
\* a read made at or after it fails with a timeout whether or not bytes are
\* waiting, and no timeout error is returned before it.
C5_AbsoluteDeadline ==
    (call.pc # "idle" /\ call.timeout # 0)
        => /\ call.deadline = call.startTime + call.timeout
           /\ call.lastReadAt < call.deadline
           /\ (call.pc = "run" /\ call.rbuf = <<>> /\ now >= call.deadline)
                 => CallRead = "timeout"
           /\ (call.pc = "done" /\ call.err = "timeout")
                 => call.retTime >= call.deadline

\* A call timed out although it had read a byte after its start and more
\* bytes had arrived in its pipe.
C5_Witness ==
    /\ call.pc = "done" /\ call.kind = "expect" /\ call.err = "timeout"
    /\ call.timeout # 0
    /\ call.lastReadAt > call.startTime
    /\ call.buf # <<>>
    /\ call.retTime = call.deadline
    /\ lost >= 1

\* C6: a timeout never drops stream bytes. No byte read from the master by
\* a deadline reader is dropped, and the copier of a call that has returned
\* holds no byte of the stream.
C6_NoByteDropped ==
    /\ lost = 0
    /\ \A k \in 1..MaxCalls : copiers[k].cbuf # <<>> => RpOpen(k)

\* Invocations of closer c by Console.Close so far.
Invocations(c) == {i \in DOMAIN closeLog : closeLog[i].fd = c}

\* C7: every Close call invokes Close on every registered closer, the PTY
\* subordinate and master among them, also when an earlier closer of the
\* list returned an error.
C7_EveryCloserInvoked ==
    \A k \in 1..nClose : \A c \in Closers :
        \E i \in Invocations(c) : closeLog[i].call = k

\* A Close call in which the subordinate's Close failed and the master's
\* Close, later in the list, was made and succeeded.
C7_Witness ==
    \E i, j \in DOMAIN closeLog :
        /\ i < j
        /\ closeLog[i].call = closeLog[j].call
        /\ closeLog[i].fd = "pts" /\ closeLog[i].err
        /\ closeLog[j].fd = "ptm" /\ ~closeLog[j].err

\* C8 as claimed: after two or more Close calls each closer has been
\* invoked exactly once in total.
C8_InvokedOnce ==
    nClose >= 2 => \A c \in Closers : Cardinality(Invocations(c)) = 1

\* C8 as amended: every Close call invokes every closer once, so after n
\* calls each closer has been invoked n times; at most one invocation of a
\* closer succeeds, the others find the file closed and return an error;
\* after the first Close call the files are closed.
C8_InvokedPerCall ==
    \A c \in Closers :
        /\ Cardinality(Invocations(c)) = nClose
        /\ Cardinality({i \in Invocations(c) : ~closeLog[i].err}) <= 1
        /\ nClose >= 1 => ~fdOpen[c]

\* Close has been called twice.
C8_Witness ==
    /\ nClose >= 2
    /\ \A c \in Closers : Cardinality(Invocations(c)) >= 2

\* C9: a call that was blocked reading the stream when Close was called
\* returns the stream's terminal error, with or without a timeout.
C9_CloseUnblocks ==
    (call.pc = "done" /\ call.blockedAtClose) => call.err \in {"eof", "closed"}

\* C12: once the reader wrapped by the deadline pipe has yielded a terminal
\* error E, a read of the pipe that finds no bytes left and whose deadline
\* has not passed returns E itself: it neither blocks nor returns another
\* error.
C12_TerminalErrorVerbatim ==
    (/\ call.pc = "run" /\ call.viaPipe
     /\ copiers[callNo].st \in {"exit", "final"}
     /\ pipeQ = <<>> /\ call.rbuf = <<>>
     /\ now < call.deadline)
        => CallRead = copiers[callNo].err

\* What ExpectEOF has copied: every sink has received the same n bytes, and
\* when the call reads the master itself they are the bytes of the stream
\* from where the call started.
EOFCopied ==
    /\ \A i \in 1..NumSinks : call.sinks[i] = call.sinks[1] /\ Len(call.sinks[i]) = call.n
    /\ ~call.viaPipe =>
          call.sinks[1] = SubSeq(written, call.startPos + 1, call.startPos + call.n)

\* The stream has ended for the call: the copier of its deadline reader has
\* met the end of the stream and nothing is left in the pipe.
EndedBeforeDeadline ==
    /\ call.viaPipe
    /\ copiers[callNo].st \in {"exit", "final"}
    /\ copiers[callNo].err \in {"eof", "closed"}
    /\ pipeQ = <<>>
    /\ now < call.deadline

\* C26: ExpectEOF drains the stream. It writes the bytes it consumes to
\* every sink in read order and counts them; it returns on the end of the
\* stream, on an error or on its deadline, and at the end of the stream
\* nothing is left unread; and when a timeout is given and the stream ends
\* before the deadline the call does not wait for the deadline.
C26_ExpectEOFDrains ==
    call.kind = "eof" =>
        /\ EOFCopied
        /\ call.pc = "done" => call.err \in {"eof", "closed", "timeout"}
        /\ (call.pc = "done" /\ call.err = "eof" /\ ~call.viaPipe) => ptmQ = <<>>
        /\ (call.pc = "run" /\ EndedBeforeDeadline) => CallRead # "block"

(***************************************************************************)
(* The claims about ReaderMux.                                             *)
(***************************************************************************)

\* C10: every byte read from the upstream reader is returned by at most one
\* consumer Read. The bytes returned, in the order the Reads returned them,
\* are upstream bytes at strictly increasing upstream positions, so no byte
\* is duplicated and the order is the upstream order; when no zero-length
\* Read has taken a byte, they are exactly the first bytes of the upstream.
C10_AtMostOneConsumer ==
    /\ \A i \in DOMAIN muxLog :
          /\ muxLog[i].idx \in DOMAIN upHist
          /\ muxLog[i].b = upHist[muxLog[i].idx]
    /\ \A i, j \in DOMAIN muxLog : i < j => muxLog[i].idx < muxLog[j].idx
    /\ muxDropped = 0 => \A i \in DOMAIN muxLog : muxLog[i].idx = i

\* Two consumers have each been handed a byte, and both are in Read again.
C10_Witness ==
    /\ \E i, j \in DOMAIN muxLog : muxLog[i].cons # muxLog[j].cons
    /\ \A c \in 1..2 : cons[c].pc = "select" /\ cons[c].plen = 1

\* C11: a Read on a consumer whose context has been cancelled returns the
\* end of the stream and takes no byte from the channel: no byte is ever
\* returned by a Read of a cancelled consumer, so none is stolen from the
\* consumers that read afterwards.
C11_CancelledTakesNothing ==
    \A i \in DOMAIN muxLog : ~muxLog[i].cancelled

(***************************************************************************)
(* The claims about PassthroughPipe.                                       *)
(***************************************************************************)
\* C25: Mux returns only when a read of the upstream has returned an error,
\* that is after the upstream was closed and drained, and once the upstream
\* has been closed Mux eventually returns.
C25_MuxTerminates ==
    /\ [](mux.pc = "done" => (upClosed /\ upQ = <<>>))
    /\ (upClosed ~> mux.pc = "done")

\* The bytes consumers took from the channel so far: the bytes Mux has read
\* but for the one it still holds in its send.
TakenFromChannel ==
    SubSeq(upHist, 1, IF mux.pc = "send" THEN mux.idx - 1 ELSE mux.idx)

\* C28: ReaderMux loses no byte. Every byte a consumer Read took from the
\* channel was returned to the caller of that Read: no Read discarded a
\* byte, and the bytes taken from the channel are the bytes the successful
\* Reads returned, in order.
C28_NoByteLost ==
    /\ muxDropped = 0
    /\ TakenFromChannel = [i \in 1..Len(muxLog) |-> muxLog[i].b]

\* C13: a read of the pipe made once its read deadline has passed returns a
\* timeout error, not data and not the terminal error, whether or not bytes
\* have been written upstream; a timeout is returned in no other case; no
\* byte written upstream is dropped (what the reads returned, followed by
\* what is on its way, is what was written, in order), and a read made
\* with the deadline in the future returns the bytes waiting in the pipe.
C13_TimeoutKeepsBytes ==
    /\ pp.lastLate => pp.last = "timeout"
    /\ pp.last = "timeout" => pp.lastLate
    /\ pp.out \o pp.hop \o pp.cbuf \o pp.up = pp.hist
    /\ (pp.deadline > pp.now /\ pp.hop # <<>>) => PipeReadResult = "data"

\* A read timed out while bytes written upstream were pending; the deadline
\* was then moved into the future and reads returned every byte.
C13_Witness ==
    /\ pp.lateWithBytes
    /\ pp.deadline > pp.now
    /\ pp.last = "data"
    /\ pp.out = pp.hist

(***************************************************************************)
(* The claims about observers, filters, matchers and timeouts.             *)
(***************************************************************************)
\* C14: the expect-observer has been invoked exactly once when an expect
\* call has returned, on every return path, with the matchers attempted,
\* the final buffer and the call's error, and not at all while the call
\* runs; the send-observer has been invoked exactly once per send, with the
\* message, the number of bytes written and the error.
C14_ObserversOnce ==
    /\ ex.pc = "run" => ex.nObs = 0
    /\ ex.pc = "done" =>
          /\ ex.nObs = 1
          /\ ex.obs = [matchers |-> ex.matchers, buf |-> ex.buf, err |-> ex.err]
    /\ Len(ex.sendObs) = ex.nSends
    /\ \A i \in DOMAIN ex.sendObs :
          /\ ex.sendObs[i].n = (IF ex.sendObs[i].err = "none"
                                 THEN Len(ex.sendObs[i].msg) ELSE 0)
          /\ ex.sendObs[i].msg \in {<<"2">>, <<"2", "\n">>}

\* A call that failed on a sink write error after it had read bytes has
\* been observed, and so has a send that failed.
C14_Witness ==
    /\ ex.pc = "done" /\ ex.err = "sinkerr" /\ ex.buf # <<>>
    /\ \E i \in DOMAIN ex.sendObs : ex.sendObs[i].err = "closed"

\* C15: with the filters that replace x and 1 by '*' registered, the match
\* buffer, the buffer given to the expect-observer and every sink hold '*'
\* at each position where the raw stream had a masked byte, the raw byte
\* elsewhere, and never a masked byte; a string matcher that is returned
\* is contained in the filtered buffer.
C15_FilterTransparency ==
    LET Masked(s) == [i \in DOMAIN s |-> IF s[i] \in {"x", "1"} THEN "*" ELSE s[i]]
        Clean(s) == \A i \in DOMAIN s : s[i] \notin {"x", "1"}
    IN /\ Len(ex.buf) <= Len(ex.rawRead)
       /\ ex.buf = SubSeq(Masked(ex.rawRead), 1, Len(ex.buf))
       /\ \A k \in 1..NumSinks :
             /\ Len(ex.sinks[k]) <= Len(ex.rawRead)
             /\ ex.sinks[k] = SubSeq(Masked(ex.rawRead), 1, Len(ex.sinks[k]))
       /\ Clean(ex.buf) /\ Clean(ex.obs.buf)
       /\ (ex.pc = "done" /\ ex.idx # 0 /\ ex.matchers[ex.idx].kind = "string")
             => Contains(ex.buf, ex.matchers[ex.idx].s)

\* A call matched a string with '*' in it on a stream whose raw bytes held
\* the masked byte x.
C15_Witness ==
    /\ ex.pc = "done" /\ ex.err = "none" /\ ex.idx # 0
    /\ ex.matchers[ex.idx] = StringMatch(<<"*", "a">>)
    /\ ex.rawRead = <<"x", "a">>
    /\ ex.buf = <<"*", "a">>

\* C16: when a call returns a string matcher, no matcher before it in the
\* argument list hits on the buffer returned: of the matchers that hit on
\* the same snapshot, the first in argument order is the one returned.
C16_MatcherPrecedence ==
    (ex.pc = "done" /\ ex.err = "none" /\ ex.idx # 0
       /\ ex.matchers[ex.idx].kind = "string")
        => /\ Contains(ex.buf, ex.matchers[ex.idx].s)
           /\ \A j \in 1..(ex.idx - 1) :
                 ~(ex.matchers[j].kind = "string" /\ Contains(ex.buf, ex.matchers[j].s))

\* Two matchers hit on the snapshot the call returned with, and the call
\* returned the first of them.
C16_Witness ==
    /\ ex.pc = "done" /\ ex.err = "none" /\ ex.idx = 1
    /\ Len(ex.matchers) = 2
    /\ ex.matchers[1] # ex.matchers[2]
    /\ \A j \in 1..2 : ex.matchers[j].kind = "string" /\ Contains(ex.buf, ex.matchers[j].s)

\* C17: an expect call uses its per-call timeout when one is given, otherwise
\* the Console's default timeout when one is set, otherwise none: a call
\* times out only once the timeout so resolved has elapsed, a call with
\* neither never times out, and a call given a per-call timeout longer than
\* the default is still waiting after the default has elapsed.
C17_EffectiveTimeout ==
    LET given == ex.callT # -1
        resolved == IF given THEN ex.callT
                    ELSE IF ex.dflt # -1 THEN ex.dflt ELSE -1
    IN (ex.pc \in {"run", "done"})
          => /\ ex.eff = resolved
             /\ ex.deadline = resolved
             /\ (ex.pc = "done" /\ ex.err = "timeout")
                   => (resolved # -1 /\ ex.elapsed >= resolved)
             /\ (ex.pc = "run" /\ resolved # -1) => ex.elapsed <= resolved

\* A call given a timeout of two ticks on a Console whose default is one
\* tick returns on the end of the stream after the default has elapsed.
C17_Witness ==
    /\ ex.pc = "done" /\ ex.dflt = 1 /\ ex.callT = 2
    /\ ex.elapsed >= 1 /\ ex.elapsed < 2
    /\ ex.err = "none" /\ ex.idx # 0
    /\ ex.matchers[ex.idx].kind \in {"eof", "ptsclosed"}

\* The place of closer c in a list of the closers.
PlaceIn(list, c) == CHOOSE i \in DOMAIN list : list[i] = c

\* closeLog[i] and closeLog[j] are invocations made by one Close call.
SameClose(i, j) == closeLog[i].call = closeLog[j].call

\* C19, as stated: in every Close, a closer registered later is closed
\* before a closer registered earlier.
C19_ReverseOfRegistration ==
    \A i, j \in DOMAIN closeLog :
        (SameClose(i, j)
           /\ PlaceIn(ClosersList, closeLog[i].fd) > PlaceIn(ClosersList, closeLog[j].fd))
            => i < j

\* C19, amended: in every Close the closers are closed in the order in which
\* they were registered, subordinate first and master last, which is the
\* reverse of the order in which pty.Open acquired the two files.
C19_RegistrationOrder ==
    \A i, j \in DOMAIN closeLog :
        SameClose(i, j) =>
            /\ PlaceIn(ClosersList, closeLog[i].fd) < PlaceIn(ClosersList, closeLog[j].fd)
                  => i < j
            /\ PlaceIn(AcquiredList, closeLog[i].fd) > PlaceIn(AcquiredList, closeLog[j].fd)
                  => i < j

\* A Close has invoked both closers.
C19_Witness ==
    \E i, j \in DOMAIN closeLog :
        SameClose(i, j) /\ closeLog[i].fd = "pts" /\ closeLog[j].fd = "ptm"

\* The bytes the child has written since the call started.
SinceStart == SubSeq(written, call.startPos + 1, Len(written))

\* p is q with some of its bytes left out.
RECURSIVE IsSubseq(_, _)
IsSubseq(p, q) ==
    IF p = <<>> THEN TRUE
    ELSE IF q = <<>> THEN FALSE
    ELSE IF Head(p) = Head(q) THEN IsSubseq(Tail(p), Tail(q))
    ELSE IsSubseq(p, Tail(q))

\* No deadline reader has been made on this Console: the calls are the only
\* readers of the PTY master.
NoDeadlineReader == \A k \in 1..MaxCalls : copiers[k].st = "none"

\* C22: the match buffer is fresh for each Expect call and matches do not
\* span calls. The buffer of a call holds only bytes read from the master
\* since the call started, in stream order; when the calls are the only
\* readers of the master it starts with the first stream byte the calls
\* before left unread; and a call that returns a match has the needle in
\* that buffer.
C22_FreshBuffer ==
    (call.kind = "expect" /\ call.pc \in {"run", "done"}) =>
        /\ Len(call.buf) <= Pos - call.startPos
        /\ IsSubseq(call.buf, SinceStart)
        /\ NoDeadlineReader =>
              call.buf = SubSeq(written, call.startPos + 1, call.startPos + Len(call.buf))
        /\ (call.pc = "done" /\ call.err = "none") =>
              \E i \in 1..Len(call.buf) :
                  SubSeq(call.buf, i, i + Len(call.needle) - 1) = call.needle

\* The call before consumed "a"; the second call, for "ab", has read the
\* "b" that followed and has no match.
C22_Witness ==
    /\ callNo = 2 /\ call.kind = "expect" /\ call.startPos = 1
    /\ written = <<"a", "b">>
    /\ call.needle = <<"a", "b">>
    /\ call.buf = <<"b">>
    /\ ~(call.pc = "done" /\ call.err = "none")

(***************************************************************************)
(* The claims about Send and SendLine.                                     *)
(***************************************************************************)
\* The bytes a call is to deliver: s, followed by one newline for SendLine.
SendWanted(e) == IF e.line THEN e.s \o <<"\n">> ELSE e.s

\* The bytes of the writes i..Len(order) that reached the PTY master.
RECURSIVE SendDelivered(_)
SendDelivered(i) ==
    IF i > Len(sd.order) THEN <<>>
    ELSE SubSeq(SendWanted(sd.order[i]), 1, sd.order[i].n) \o SendDelivered(i + 1)

\* C18: sends are ordered and whole. The child's input is the bytes of the
\* writes in the order they were begun, each contiguous: only the last write
\* begun can be unfinished, the calls of one task appear in call order, and
\* a SendLine(s) that returned without error delivered s followed by one
\* newline.
C18_SendsOrderedWhole ==
    /\ sd.master = SendDelivered(1)
    /\ \A i \in 1..Len(sd.order) :
          /\ i < Len(sd.order) => sd.order[i].done
          /\ (sd.order[i].done /\ ~sd.order[i].err)
                => sd.order[i].n = Len(SendWanted(sd.order[i]))
          /\ \A j \in 1..Len(sd.order) :
                (i < j /\ sd.order[i].task = sd.order[j].task)
                    => sd.order[i].call < sd.order[j].call

\* A SendLine and a chunk of the input copier were in progress together
\* and both were delivered whole, and a task's two calls were delivered.
C18_Witness ==
    /\ sd.master = <<"2", "\n", "c", "d", "2">>
    /\ Len(sd.order) = 3
    /\ sd.order[1].line /\ sd.order[1].task = 1
    /\ sd.order[2].task = CopierTask
    /\ sd.order[3].task = 1
    /\ \A i \in 1..3 : sd.order[i].done /\ ~sd.order[i].err

(***************************************************************************)
(* The claims about the tee of Expect.                                     *)
(***************************************************************************)
\* p is a prefix of q.
IsPrefix(p, q) == Len(p) <= Len(q) /\ p = SubSeq(q, 1, Len(p))

\* C20: sinks are at least as current as the matchers. The match buffer is
\* a prefix of what each sink has received during the call; when the search
\* of the buffer is made every byte of the buffer has been written to every
\* sink; and the next byte is not read from the stream before the previous
\* one has been written to all sinks, so that of the bytes read from the
\* stream at most the last is missing from a sink.
C20_SinksCurrent ==
    \A i \in 1..NumSinks :
        /\ IsPrefix(tee.buf, tee.sinks[i])
        /\ tee.pc = "match" => tee.sinks[i] = tee.buf
        /\ tee.nRead <= Len(tee.sinks[i]) + 1

\* The needle s occurs in b.
Occurs(b, s) == \E i \in 1..(Len(b) + 1) : i + Len(s) - 1 <= Len(b) /\ SubSeq(b, i, i + Len(s) - 1) = s

\* b is the shortest prefix of the bytes available that contains s.
ShortestWith(b, avail, s) ==
    /\ IsPrefix(b, avail)
    /\ Occurs(b, s)
    /\ \A n \in 0..(Len(b) - 1) : ~Occurs(SubSeq(b, 1, n), s)

\* C21, as stated: for every needle, the empty string included, Expect
\* returns success with buffer b if and only if b contains the needle, and
\* b is then the shortest prefix of the bytes available in the call that
\* contains it.
C21_ShortestContaining ==
    tee.pc = "done" =>
        /\ (tee.err = "none") <=> Occurs(tee.content, tee.needle)
        /\ tee.err = "none" => ShortestWith(tee.content, tee.taken, tee.needle)

\* C21, amended: for a needle that is not empty the statement holds, and the
\* search goes on while the buffer does not contain the needle. The search
\* is made after a rune has been read: Expect("") returns the first rune of
\* the call, and fails on a stream that ends with nothing read.
C21_ContainsNeedle ==
    /\ (tee.pc = "done" /\ tee.needle # <<>>) =>
          /\ (tee.err = "none") <=> Occurs(tee.content, tee.needle)
          /\ tee.err = "none" => ShortestWith(tee.content, tee.taken, tee.needle)
    /\ (tee.pc \in {"read", "flush"} /\ tee.needle # <<>>) => ~Occurs(tee.buf, tee.needle)
    /\ (tee.pc = "done" /\ tee.needle = <<>>) =>
          /\ tee.err = "none" => (Len(tee.content) = 1 /\ IsPrefix(tee.content, tee.taken))
          /\ tee.err = "eof" => tee.content = <<>>

\* Expect("b") on the stream "ab" has returned "ab".
C21_Witness ==
    /\ tee.pc = "done" /\ tee.err = "none"
    /\ tee.needle = <<"b">>
    /\ tee.taken = <<"a", "b">>
    /\ tee.content = <<"a", "b">>

\* The call has returned the error of a write to a sink.
SinkFailed == tee.pc = "done" /\ tee.err = "sinkerr"

\* C23: a sink write error aborts the expect call. When the write of a rune
\* to a sink fails the call returns that error at once: the rune has reached
\* the sinks before the failing one only, it is not in the match buffer and
\* no search was made with it; the buffer returned holds exactly the runes
\* written before it, which every sink has received; and nothing more is
\* read from the stream or written by the call.
C23_SinkErrorAborts ==
    /\ [](tee.err = "sinkerr" => SinkFailed)
    /\ [](SinkFailed =>
            /\ tee.content = tee.buf
            /\ Len(tee.wbuf) = 1
            /\ tee.needle # <<>> => ~Occurs(tee.content, tee.needle)
            /\ \A i \in 1..NumSinks :
                  tee.sinks[i] = IF i < tee.k THEN tee.buf \o tee.wbuf ELSE tee.buf)
    /\ [][SinkFailed =>
            /\ tee'.pc = "done" /\ tee'.err = "sinkerr"
            /\ tee'.taken = tee.taken /\ tee'.rbuf = tee.rbuf
            /\ tee'.sinks = tee.sinks /\ tee'.buf = tee.buf
            /\ tee'.content = tee.content]_vars

\* The write of the rune that would have completed the match "ab" reached
\* the first sink and failed on the second: the call returned "a" and the
\* error.
C23_Witness ==
    /\ SinkFailed
    /\ tee.k = 2
    /\ tee.needle = <<"a", "b">>
    /\ tee.content = <<"a">> /\ tee.wbuf = <<"b">>
    /\ tee.sinks[1] = <<"a", "b">> /\ tee.sinks[2] = <<"a">>

(***************************************************************************)
(* The claims about the runes of Expect.                                   *)
(***************************************************************************)
\* s is a sequence of complete encodings of runes.
RECURSIVE WholeRunes(_)
WholeRunes(s) ==
    IF s = <<>> THEN TRUE
    ELSE IF s[1] = "a" THEN WholeRunes(Tail(s))
    ELSE IF Len(s) >= 2 /\ SubSeq(s, 1, 2) = <<"L", "C">> THEN WholeRunes(Drop(s, 2))
    ELSE IF Len(s) >= 3 /\ SubSeq(s, 1, 3) = Replacement THEN WholeRunes(Drop(s, 3))
    ELSE FALSE

\* s is well-formed UTF-8 as far as it goes: complete runes, and at its end,
\* while more may come, the first bytes of a rune.
RECURSIVE WellFormed(_, _)
WellFormed(s, more) ==
    IF s = <<>> THEN TRUE
    ELSE IF s[1] = "a" THEN WellFormed(Tail(s), more)
    ELSE IF s[1] = "L" THEN IF Len(s) = 1 THEN more
                            ELSE s[2] = "C" /\ WellFormed(Drop(s, 2), more)
    ELSE FALSE

\* C24: rune boundaries. The match buffer and every sink hold complete
\* runes only, and as long as what the child has written is well-formed
\* UTF-8 they hold bytes identical to the bytes read: the bytes of a rune
\* that has arrived in part are held back until the rune is complete.
C24_RuneBoundaries ==
    /\ WholeRunes(rn.buf)
    /\ \A i \in 1..NumSinks : WholeRunes(rn.sinks[i])
    /\ WellFormed(rn.written, ~rn.ended) =>
          /\ IsPrefix(rn.buf, rn.taken)
          /\ \A i \in 1..NumSinks : IsPrefix(rn.sinks[i], rn.taken)

(***************************************************************************)
(* The claims about the test-log writer.                                   *)
(***************************************************************************)
\* The lines of us that are terminated by a newline, without the newline.
RECURSIVE WholeLines(_)
WholeLines(us) ==
    LET i == FirstNewline(us)
    IN IF i = 0 THEN <<>>
       ELSE <<SubSeq(us, 1, i - 1)>> \o WholeLines(SubSeq(us, i + 1, Len(us)))

\* What follows the last newline of us.
RECURSIVE LastLine(_)
LastLine(us) ==
    LET i == FirstNewline(us)
    IN IF i = 0 THEN us ELSE LastLine(SubSeq(us, i + 1, Len(us)))

\* The lines the logger is due: the terminated lines and, once the writer is
\* closed, the unterminated line at the end if there is one.
LinesDue ==
    WholeLines(tl.written)
        \o (IF tl.closed /\ LastLine(tl.written) # <<>> THEN <<LastLine(tl.written)>>
                                                         ELSE <<>>)

\* C27: the test-log writer forwards whole lines only. What has been logged
\* is, line for line and in order, the beginning of the lines written, each
\* once and without its newline: nothing of a line is logged before its
\* newline is written or the writer closed. When the goroutine has returned
\* every line was logged, so the logged lines joined by newlines are the
\* bytes written.
C27_WholeLinesOnly ==
    /\ IsPrefix(tl.log, LinesDue)
    /\ tl.pc = "done" => tl.log = LinesDue

====
